---- MODULE Spec2Model ----
(***************************************************************************)
(* A model of find_speaker_gender_counts.py: the pronoun classifier, the   *)
(* gender resolver, the ratio computation and the cached fetch pipeline    *)
(* that process_year / show_gender_diversity_by_track drive.               *)
(*                                                                         *)
(* Text is a sequence of one-character strings.  A gender label is a       *)
(* sequence of segments (<<"mostly_", "male">> is "mostly_male", <<>> is   *)
(* the empty string) so that startswith / slicing are computed as the code *)
(* computes them.                                                          *)
(***************************************************************************)
EXTENDS Integers, Sequences, FiniteSets, TLC

VARIABLES
    \* ---- the external collaborators, constructed once ----
    detector,    \* d = gender_guesser.detector.Detector(): first name -> raw label
    parser,      \* nameparser.HumanName(name).first: name -> first name
    \* ---- a single call of a function (unit specifications) ----
    args,        \* the arguments of the call
    ret,         \* [status, value]: "pending", "returned" or "raised"
    calls,       \* the arguments d.get_gender has been invoked with
    \* ---- the working directory and the network ----
    dirs,        \* the directories that exist
    fs,          \* the files that exist: path -> content
    gets,        \* per resource key, the number of requests.get issued
    saved,       \* per resource key, the number of responses written to disk
    \* ---- the running process ----
    pc,          \* position of the process ("idle" when none runs)
    mode,        \* "years" (bare invocation) or "tracks" (--tracks YEAR)
    argYear,     \* int(sys.argv[2]) in track mode
    yi,          \* index into Years of the year being processed
    idx,         \* position of get_speaker_pages in iter_speakers(year)
    total,       \* get_speaker_pages' running total
    counts,      \* the result of get_counts(year)
    resp,        \* the response body of the request that has just returned
    out,         \* the lines printed by this run
    err,         \* the uncaught exception that ended the run, or "none"
    failedKey,   \* the resource whose retrieval raised
    runs         \* how many times the program has been started

vars == <<detector, parser, args, ret, calls, dirs, fs, gets, saved, pc, mode, argYear,
          yi, idx, total, counts, resp, out, err, failedKey, runs>>

procVars == <<dirs, fs, gets, saved, pc, mode, argYear, yi, idx, total, counts, resp,
              out, err, failedKey, runs>>

(***************************************************************************)
(* Bounds of the model.                                                    *)
(***************************************************************************)
MaxChunks == 4     \* a biography is at most this many chunks long
MaxCount == 2      \* a counts mapping holds values up to this
MaxRuns == 3       \* the program is started at most this many times

(***************************************************************************)
(* Labels.                                                                 *)
(***************************************************************************)
Male == <<"male">>
Female == <<"female">>
Unknown == <<"unknown">>
Andy == <<"andy">>
EmptyStr == <<>>
NoneVal == <<"<None>">>      \* Python's None; no label is spelled like this

\* What the external classifier may answer: gender_guesser's vocabulary and,
\* its vocabulary being externally controlled, an empty and an unexpected label.
RawLabels ==
    { Male, Female, Unknown, Andy, <<"mostly_", "male">>, <<"mostly_", "female">>,
      EmptyStr, <<"other">> }

(***************************************************************************)
(* Regular expressions re_he and re_she over a text.                       *)
(***************************************************************************)
NonWordChars == {" ", ".", "-", ","}

\* \w: letters, digits and the underscore
IsWordChar(c) == c \notin NonWordChars

\* re.I: compare characters without regard to case
Lower(c) ==
    CASE c = "H" -> "h"
      [] c = "E" -> "e"
      [] c = "S" -> "s"
      [] OTHER -> c

\* whether position i (1..Len+1, the gap before text[i]) is a \b boundary
WordAt(text, i) == i >= 1 /\ i <= Len(text) /\ IsWordChar(text[i])

Boundary(text, i) == WordAt(text, i - 1) # WordAt(text, i)

\* the literal w matches at position i, case-insensitively
LiteralAt(text, i, w) ==
    /\ i + Len(w) - 1 <= Len(text)
    /\ \A j \in 1..Len(w) : Lower(text[i + j - 1]) = Lower(w[j])

\* pattern.search(text) for \b(w1|w2|...)\b : some position where a boundary,
\* one alternative and a boundary follow each other
SearchWord(text, alts) ==
    \E i \in 1..Len(text) :
        /\ Boundary(text, i)
        /\ \E w \in alts : LiteralAt(text, i, w) /\ Boundary(text, i + Len(w))

\* re_he compiled without the \b anchors
re_he_unanchored(text) ==
    \E i \in 1..Len(text) :
        \E w \in {<<"h", "e">>, <<"h", "i", "m">>} : LiteralAt(text, i, w)

re_he(text) == SearchWord(text, {<<"h", "e">>, <<"h", "i", "m">>})

re_she(text) == SearchWord(text, {<<"s", "h", "e">>, <<"h", "e", "r">>})

guess_gender_from_bio(bio) ==
    IF bio = <<>> THEN NoneVal
    ELSE LET m_he == re_he(bio)
             m_she == re_she(bio)
         IN  IF m_he /\ ~m_she THEN Male
             ELSE IF m_she /\ ~m_he THEN Female
             ELSE NoneVal

(***************************************************************************)
(* Names, the name parser and the name classifier.                         *)
(* A name is a sequence of words and " " separators.                       *)
(***************************************************************************)
HasSpace(name) == \E i \in 1..Len(name) : name[i] = " "

\* what a parser may return as the "first" component of a name: one of its
\* words, or the empty string
ParserRange(name) == {EmptyStr} \cup {<<name[i]>> : i \in {j \in 1..Len(name) : name[j] # " "}}

get_first_name(name) == IF HasSpace(name) THEN parser[name] ELSE name

StartsWithMostly(gender) == Len(gender) > 0 /\ gender[1] = "mostly_"

\* get_speaker_gender after the biography has been read: the label, and the
\* arguments d.get_gender was invoked with on the way
\* (variant that asks the name classifier first and the biography second)
resolve_gender_name_first(name, bio) ==
    LET raw == detector[get_first_name(name)]
        g1 == IF StartsWithMostly(raw) THEN Tail(raw) ELSE raw
        g2 == IF g1 = Andy THEN Unknown ELSE g1
    IN  IF g2 \in {Male, Female}
        THEN [gender |-> g2, queried |-> {get_first_name(name)}]
        ELSE LET b == guess_gender_from_bio(bio)
             IN  [gender |-> IF b # NoneVal THEN b ELSE g2,
                  queried |-> {get_first_name(name)}]

resolve_gender(name, bio) ==
    LET gender_from_bio == guess_gender_from_bio(bio)
    IN  IF gender_from_bio # NoneVal
        THEN [gender |-> gender_from_bio, queried |-> {}]
        ELSE LET first == get_first_name(name)
                 raw == detector[first]
                 g1 == IF StartsWithMostly(raw) THEN Tail(raw) ELSE raw
                 g2 == IF g1 = Andy THEN Unknown ELSE g1
             IN  [gender |-> g2, queried |-> {first}]

(***************************************************************************)
(* get_ratio.  A float is kept as the exact fraction <<numerator,          *)
(* denominator>>; two ratios are equal when they cross-multiply equal.     *)
(***************************************************************************)
DictGet(dct, k, default) == IF k \in DOMAIN dct THEN dct[k] ELSE default

RatEq(a, b) == a[1] * b[2] = b[1] * a[2]

RatLess(a, b) == a[1] * b[2] < b[1] * a[2]

\* variant dividing by the number of all speakers
get_ratio_of_all(cnts) ==
    LET female == DictGet(cnts, Female, 0)
        RECURSIVE SumOver(_)
        SumOver(ks) == IF ks = {} THEN 0
                       ELSE LET k == CHOOSE x \in ks : TRUE
                            IN  cnts[k] + SumOver(ks \ {k})
        all == SumOver(DOMAIN cnts)
    IN  IF all = 0
        THEN [status |-> "ZeroDivisionError", value |-> <<>>]
        ELSE [status |-> "returned", value |-> <<female, all>>]

\* variant that answers 0 where there is nothing to divide by
get_ratio_zero_safe(cnts) ==
    LET male == DictGet(cnts, Male, 0)
        female == DictGet(cnts, Female, 0)
    IN  IF male + female = 0
        THEN [status |-> "returned", value |-> <<0, 1>>]
        ELSE [status |-> "returned", value |-> <<female, male + female>>]

get_ratio(cnts) ==
    LET male == DictGet(cnts, Male, 0)
        female == DictGet(cnts, Female, 0)
    IN  IF male + female = 0
        THEN [status |-> "ZeroDivisionError", value |-> <<>>]
        ELSE [status |-> "returned", value |-> <<female, male + female>>]

(***************************************************************************)
(* The working directory, the directory page and the speaker pages.        *)
(***************************************************************************)
\* the first years of range(2023, 2012, -1), in the order main visits them
Years == <<2023, 2022>>

YearSet == {Years[i] : i \in 1..Len(Years)}

StaffSlug == "fosdem_staff"

Slugs == {"a", "b", StaffSlug}

DirPath(year) == <<year, "speakers.html">>

PagePath(year, slug) == <<year, "html", slug>>

Keys == {DirPath(y) : y \in YearSet} \cup {PagePath(y, s) : y \in YearSet, s \in Slugs}

\* the lines of a directory page: match says whether re_speaker_link matches
LineA == [match |-> TRUE, slug |-> "a", name |-> <<"sam">>]
LineB == [match |-> TRUE, slug |-> "b", name |-> <<"sam", " ", "lee">>]
LineStaff == [match |-> TRUE, slug |-> StaffSlug, name |-> <<"staff">>]
LineOther == [match |-> FALSE, slug |-> "", name |-> <<>>]

\* the directory pages the server may answer with
DirPages ==
    { <<>>, <<LineOther, LineA>>, <<LineB, LineStaff>>, <<LineA, LineStaff, LineA>>,
      <<LineA, LineB>>, <<LineB, LineB, LineA>> }

\* a speaker page: its biography paragraph and the track links of its talks
TrackPython == [key |-> <<"python">>, name |-> "Python"]
TrackMainA == [key |-> <<"main_track", "_a">>, name |-> "Main track A"]
TrackMainB == [key |-> <<"main_track", "_b">>, name |-> "Main track B"]
TrackBof == [key |-> <<"bofs_", "x">>, name |-> "BOF x"]
TrackTest == [key |-> <<"test">>, name |-> "Test"]

PageShe ==
    [bio |-> <<"S", "h", "e", " ", "h", "a", "c", "k", "s">>,
     tracks |-> {TrackPython, TrackTest}]
PageNoBio == [bio |-> <<>>, tracks |-> {TrackMainA, TrackMainB, TrackBof}]

SpeakerPages == {PageShe, PageNoBio}

\* every name of the model, and every first name get_first_name can produce
Names == {<<>>, <<" ">>, LineA.name, LineB.name, LineStaff.name}

FirstNames ==
    {n \in Names : ~HasSpace(n)} \cup UNION {ParserRange(n) : n \in {m \in Names : HasSpace(m)}}

Parsers == {p \in [{n \in Names : HasSpace(n)} -> FirstNames] : \A n \in DOMAIN p : p[n] \in ParserRange(n)}

\* the classifier table the pipeline runs with
PipelineDetector ==
    [n \in FirstNames |->
        CASE n = <<"sam">> -> <<"mostly_", "male">>
          [] n = <<"lee">> -> Andy
          [] OTHER -> Unknown]

\* variant of os.path.exists that never finds the file
ExistsNever(path) == FALSE

Exists(path) == path \in DOMAIN fs

\* iter_speakers variant that yields the staff entry too
iter_speakers_all(year) == SelectSeq(fs[DirPath(year)], LAMBDA l : l.match)

iter_speakers(year) ==
    SelectSeq(fs[DirPath(year)], LAMBDA l : l.match /\ l.slug # StaffSlug)

parse_speaker_bio(filename) == fs[filename].bio

get_speaker_tracks(filename) ==
    LET kept == {t \in fs[filename].tracks :
                    ~(t.key = <<"test">> \/ t.key[1] = "bofs_")}
    IN  {IF t.key[1] = "main_track" THEN "Main track" ELSE t.name : t \in kept}

get_speaker_gender(year, slug, name) ==
    resolve_gender(name, parse_speaker_bio(PagePath(year, slug))).gender

CounterAdd(c, k) == IF k \in DOMAIN c THEN [c EXCEPT ![k] = @ + 1] ELSE c @@ (k :> 1)

EmptyDict == <<>>

RECURSIVE CountGenders(_, _, _)
CountGenders(year, speakers, acc) ==
    IF speakers = <<>> THEN acc
    ELSE CountGenders(year, Tail(speakers),
            CounterAdd(acc, get_speaker_gender(year, Head(speakers).slug, Head(speakers).name)))

get_counts(year) == CountGenders(year, iter_speakers(year), EmptyDict)

\* whether every file get_counts / get_tracks_and_gender opens exists
AllPagesCached(year) ==
    \A i \in 1..Len(iter_speakers(year)) : Exists(PagePath(year, iter_speakers(year)[i].slug))

RECURSIVE AddTracks(_, _, _)
AddTracks(count, tracks, gender) ==
    IF tracks = {} THEN count
    ELSE LET t == CHOOSE x \in tracks : TRUE
             c == IF t \in DOMAIN count THEN count[t] ELSE EmptyDict
             added == [x \in DOMAIN count \cup {t} |->
                          IF x = t THEN CounterAdd(c, gender) ELSE count[x]]
         IN  AddTracks(added, tracks \ {t}, gender)

RECURSIVE CountTracks(_, _, _)
CountTracks(year, speakers, count) ==
    IF speakers = <<>> THEN count
    ELSE LET sp == Head(speakers)
         IN  CountTracks(year, Tail(speakers),
                AddTracks(count, get_speaker_tracks(PagePath(year, sp.slug)),
                          get_speaker_gender(year, sp.slug, sp.name)))

\* the defaultdict show_gender_diversity_by_track builds from a year's pages
track_counts(year) == CountTracks(year, iter_speakers(year), EmptyDict)

\* the year show_gender_diversity_by_track(year) reads
TracksYear(year) == 2023

\* the track names of the model in ascending string order
TrackNameOrder == <<"Main track", "Python">>

NameRank(n) == CHOOSE i \in 1..Len(TrackNameOrder) : TrackNameOrder[i] = n

\* (ratio, track) tuple comparison
TupleLess(a, b) ==
    \/ RatLess(a.ratio, b.ratio)
    \/ RatEq(a.ratio, b.ratio) /\ NameRank(a.track) < NameRank(b.track)

\* tracks.sort(reverse=True)
RECURSIVE SortDesc(_)
SortDesc(S) ==
    IF S = {} THEN <<>>
    ELSE LET top == CHOOSE x \in S : \A y \in S \ {x} : TupleLess(y, x)
         IN  <<top>> \o SortDesc(S \ {top})

(***************************************************************************)
(* The process: main, process_year, get_speaker_pages,                     *)
(* show_gender_diversity_by_track.                                         *)
(***************************************************************************)
NoResp == <<>>
NoKey == <<>>

Year == Years[yi]

Inc(f, k) == [f EXCEPT ![k] = @ + 1]

mkdir(ds, d) == IF d \in ds THEN ds ELSE ds \cup {d}

\* the files after requests.get has raised: the file is opened only after
\* the response has arrived
FilesAfterFailedGetTruncating(path) == [p \in DOMAIN fs \cup {path} |-> IF p = path THEN <<>> ELSE fs[p]]

FilesAfterFailedGet(path) == fs

InitProc ==
    /\ dirs = {}
    /\ fs = <<>>
    /\ gets = [k \in Keys |-> 0]
    /\ saved = [k \in Keys |-> 0]
    /\ pc = "idle"
    /\ mode = "none"
    /\ argYear = 0
    /\ yi = 1
    /\ idx = 0
    /\ total = 0
    /\ counts = EmptyDict
    /\ resp = NoResp
    /\ out = <<>>
    /\ err = "none"
    /\ failedKey = NoKey
    /\ runs = 0

NoCall ==
    /\ args = [fn |-> "none"]
    /\ ret = [status |-> "none", value |-> <<>>]
    /\ calls = {}

unitVars == <<detector, parser, args, ret, calls>>

\* the state a fresh process starts in
Start(m, y) ==
    /\ pc \in {"idle", "exited"}
    /\ runs < MaxRuns
    /\ runs' = runs + 1
    /\ mode' = m
    /\ argYear' = y
    /\ yi' = 1
    /\ idx' = 0
    /\ total' = 0
    /\ counts' = EmptyDict
    /\ resp' = NoResp
    /\ out' = <<>>
    /\ err' = "none"
    /\ failedKey' = NoKey
    /\ UNCHANGED <<dirs, fs, gets, saved, unitVars>>

\* main, bare invocation
MainYears ==
    /\ Start("years", 0)
    /\ pc' = "process_year"

\* main, --tracks YEAR
MainTracks ==
    /\ \E y \in YearSet : Start("tracks", y)
    /\ pc' = "tracks"

\* an uncaught exception ends the process
Raise(e) ==
    /\ err' = e
    /\ pc' = "exited"

\* process_year up to the request for the directory page
ProcessYear ==
    /\ pc = "process_year"
    /\ dirs' = mkdir(mkdir(dirs, <<Year>>), <<Year, "html">>)
    /\ IF ~Exists(DirPath(Year))
       THEN pc' = "get_dir" /\ UNCHANGED <<idx, total>>
       ELSE pc' = "speaker_pages" /\ idx' = 1 /\ total' = 0
    /\ UNCHANGED <<fs, gets, saved, mode, argYear, yi, counts, resp, out, err,
                   failedKey, runs, unitVars>>

\* requests.get(url): the response arrives, or the transport raises
Get(key, bodies, next) ==
    /\ gets' = Inc(gets, key)
    /\ \/ /\ \E body \in bodies : resp' = body
          /\ pc' = next
          /\ UNCHANGED <<fs, err, failedKey>>
       \/ /\ Raise("ConnectionError")
          /\ failedKey' = key
          /\ fs' = FilesAfterFailedGet(key)
          /\ UNCHANGED resp
    /\ UNCHANGED <<dirs, saved, mode, argYear, yi, idx, total, counts, out, runs, unitVars>>

\* open(filename, "wb").write(body): the file appears with the whole body
\* (a kill between open and write would leave a shorter file at the same
\* path; the file exists either way and is never written again)
Write(key) ==
    /\ fs' = [p \in DOMAIN fs \cup {key} |-> IF p = key THEN resp ELSE fs[p]]
    /\ saved' = Inc(saved, key)
    /\ resp' = NoResp

GetDir ==
    /\ pc = "get_dir"
    /\ Get(DirPath(Year), DirPages, "write_dir")

WriteDir ==
    /\ pc = "write_dir"
    /\ Write(DirPath(Year))
    /\ pc' = "speaker_pages"
    /\ idx' = 1
    /\ total' = 0
    /\ UNCHANGED <<dirs, gets, mode, argYear, yi, counts, out, err, failedKey, runs,
                   unitVars>>

\* one iteration of get_speaker_pages' loop, up to the request; or its return
SpeakerPagesLoop ==
    /\ pc = "speaker_pages"
    /\ IF idx > Len(iter_speakers(Year))
       THEN pc' = "get_counts" /\ UNCHANGED <<idx, total>>
       ELSE /\ total' = total + 1
            /\ IF Exists(PagePath(Year, iter_speakers(Year)[idx].slug))
               THEN idx' = idx + 1 /\ pc' = "speaker_pages"
               ELSE idx' = idx /\ pc' = "get_page"
    /\ UNCHANGED <<dirs, fs, gets, saved, mode, argYear, yi, counts, resp, out, err,
                   failedKey, runs, unitVars>>

GetPage ==
    /\ pc = "get_page"
    /\ Get(PagePath(Year, iter_speakers(Year)[idx].slug), SpeakerPages, "write_page")

WritePage ==
    /\ pc = "write_page"
    /\ Write(PagePath(Year, iter_speakers(Year)[idx].slug))
    /\ idx' = idx + 1
    /\ pc' = "speaker_pages"
    /\ UNCHANGED <<dirs, gets, mode, argYear, yi, total, counts, out, err, failedKey,
                   runs, unitVars>>

\* counts = get_counts(year)
GetCounts ==
    /\ pc = "get_counts"
    /\ IF AllPagesCached(Year)
       THEN counts' = get_counts(Year) /\ pc' = "summary" /\ UNCHANGED err
       ELSE Raise("FileNotFoundError") /\ UNCHANGED counts
    /\ UNCHANGED <<dirs, fs, gets, saved, mode, argYear, yi, idx, total, resp, out,
                   failedKey, runs, unitVars>>

\* print(f"{year}: {total} speakers {get_ratio(counts):.2%} female"), and
\* main's loop moving to the next year
Summary ==
    /\ pc = "summary"
    /\ LET r == get_ratio(counts)
       IN  IF r.status # "returned"
           THEN Raise(r.status) /\ UNCHANGED <<out, yi>>
           ELSE /\ out' = Append(out, [year |-> Year, total |-> total, ratio |-> r.value])
                /\ IF yi < Len(Years)
                   THEN yi' = yi + 1 /\ pc' = "process_year"
                   ELSE yi' = yi /\ pc' = "exited"
                /\ UNCHANGED err
    /\ UNCHANGED <<dirs, fs, gets, saved, mode, argYear, idx, total, counts, resp,
                   failedKey, runs, unitVars>>

\* show_gender_diversity_by_track(year)
ShowGenderDiversityByTrack ==
    /\ pc = "tracks"
    /\ LET y == TracksYear(argYear)
       IN  IF ~Exists(DirPath(y)) \/ ~AllPagesCached(y)
           THEN Raise("FileNotFoundError") /\ UNCHANGED <<counts, out>>
           ELSE LET count == track_counts(y)
                    ratios == [t \in DOMAIN count |-> get_ratio(count[t])]
                IN  /\ counts' = count
                    /\ IF \E t \in DOMAIN count : ratios[t].status # "returned"
                       THEN Raise("ZeroDivisionError") /\ UNCHANGED out
                       ELSE /\ out' = SortDesc({[ratio |-> ratios[t].value, track |-> t] :
                                                   t \in DOMAIN count})
                            /\ pc' = "exited"
                            /\ UNCHANGED err
    /\ UNCHANGED <<dirs, fs, gets, saved, mode, argYear, yi, idx, total, resp,
                   failedKey, runs, unitVars>>

\* the process is killed from outside
Kill ==
    /\ pc \notin {"idle", "exited"}
    /\ Raise("killed")
    /\ UNCHANGED <<dirs, fs, gets, saved, mode, argYear, yi, idx, total, counts, resp,
                   out, failedKey, runs, unitVars>>

Init ==
    /\ detector = PipelineDetector
    /\ parser \in Parsers
    /\ NoCall
    /\ InitProc

Next ==
    \/ MainYears
    \/ MainTracks
    \/ ProcessYear
    \/ GetDir
    \/ WriteDir
    \/ SpeakerPagesLoop
    \/ GetPage
    \/ WritePage
    \/ GetCounts
    \/ Summary
    \/ ShowGenderDiversityByTrack
    \/ Kill

Spec == Init /\ [][Next]_vars

(***************************************************************************)
(* Single calls of guess_gender_from_bio, get_speaker_gender and get_ratio *)
(* on arguments drawn from bounded sets.                                   *)
(***************************************************************************)
SeqsUpTo(S, n) == UNION {[1..k -> S] : k \in 0..n}

RECURSIVE Flatten(_)
Flatten(cs) == IF cs = <<>> THEN <<>> ELSE Head(cs) \o Flatten(Tail(cs))

\* the pieces biographies are built from
Chunks ==
    { <<"h", "e">>, <<"h", "i", "m">>, <<"s", "h", "e">>, <<"h", "e", "r">>,
      <<"H", "E">>, <<"S">>, <<" ">>, <<"_">> }

Bios == {Flatten(cs) : cs \in SeqsUpTo(Chunks, MaxChunks)}

Pending(fn) == args.fn = fn /\ ret.status = "pending"

InitBio ==
    /\ detector = PipelineDetector
    /\ parser \in {CHOOSE p \in Parsers : TRUE}
    /\ args \in {[fn |-> "guess_gender_from_bio", bio |-> b] : b \in Bios}
    /\ ret = [status |-> "pending", value |-> <<>>]
    /\ calls = {}
    /\ InitProc

CallGuessGenderFromBio ==
    /\ Pending("guess_gender_from_bio")
    /\ ret' = [status |-> "returned", value |-> guess_gender_from_bio(args.bio)]
    /\ UNCHANGED <<detector, parser, args, calls, procVars>>

SpecBio == InitBio /\ [][CallGuessGenderFromBio]_vars

\* biographies for the resolver: no pronoun, one of each kind, both kinds
ResolverBios ==
    { <<>>, <<"s", "h", "e">>, <<"H", "e", " ", "i", "s">>,
      <<"h", "e", ",", "s", "h", "e">>, <<"t", "h", "e", "y">> }

InitGender ==
    /\ detector \in [FirstNames -> RawLabels]
    /\ parser \in Parsers
    /\ args \in {[fn |-> "get_speaker_gender", name |-> n, bio |-> b] :
                    n \in Names \ {LineStaff.name}, b \in ResolverBios}
    /\ ret = [status |-> "pending", value |-> <<>>]
    /\ calls = {}
    /\ InitProc

CallGetSpeakerGender ==
    /\ Pending("get_speaker_gender")
    /\ LET r == resolve_gender(args.name, args.bio)
       IN  /\ ret' = [status |-> "returned", value |-> r.gender]
           /\ calls' = calls \cup r.queried
    /\ UNCHANGED <<detector, parser, args, procVars>>

SpecGender == InitGender /\ [][CallGetSpeakerGender]_vars

\* the keys a counts mapping may hold: the three labels and an unexpected one
CountKeys == {Male, Female, Unknown, <<"other">>}

CountDicts == UNION {[ks -> 1..MaxCount] : ks \in SUBSET CountKeys}

InitRatio ==
    /\ detector = PipelineDetector
    /\ parser \in {CHOOSE p \in Parsers : TRUE}
    /\ args \in {[fn |-> "get_ratio", counts |-> c] : c \in CountDicts}
    /\ ret = [status |-> "pending", value |-> <<>>]
    /\ calls = {}
    /\ InitProc

CallGetRatio ==
    /\ Pending("get_ratio")
    /\ ret' = get_ratio(args.counts)
    /\ UNCHANGED <<detector, parser, args, calls, procVars>>

SpecRatio == InitRatio /\ [][CallGetRatio]_vars

(***************************************************************************)
(* Properties.                                                             *)
(***************************************************************************)
Returned(fn) == args.fn = fn /\ ret.status = "returned"

\* the words of a text: its maximal runs of word characters, in lower case
WordTokens(text) ==
    {[k \in 1..(j - i + 1) |-> Lower(text[i + k - 1])] :
        <<i, j>> \in {<<a, b>> \in (1..Len(text)) \X (1..Len(text)) :
                        /\ a <= b
                        /\ \A k \in a..b : IsWordChar(text[k])
                        /\ (a = 1 \/ ~IsWordChar(text[a - 1]))
                        /\ (b = Len(text) \/ ~IsWordChar(text[b + 1]))}}

HasHe(text) == WordTokens(text) \cap {<<"h", "e">>, <<"h", "i", "m">>} # {}

HasShe(text) == WordTokens(text) \cap {<<"s", "h", "e">>, <<"h", "e", "r">>} # {}

RECURSIVE SumDict(_)
SumDict(c) ==
    IF DOMAIN c = {} THEN 0
    ELSE LET k == CHOOSE x \in DOMAIN c : TRUE
         IN  c[k] + SumDict([x \in DOMAIN c \ {k} |-> c[x]])

\* the speaker lines of a cached directory page, counted without iterating
NumSpeakers(year) ==
    Cardinality({i \in DOMAIN fs[DirPath(year)] :
                    fs[DirPath(year)][i].match /\ fs[DirPath(year)][i].slug # StaffSlug})

MalePlusFemale(c) == DictGet(c, Male, 0) + DictGet(c, Female, 0)

\* C1 as stated: each resource key sees at most one network GET in total,
\* over all runs, aborted ones included.
C1_AtMostOneGetPerKey == \A k \in Keys : gets[k] <= 1

\* C1 as amended: no request is ever issued for a resource whose local file
\* exists, and at most one response per resource key is ever written to
\* disk (a request that failed, or whose run was killed before the write,
\* is repeated by a later run that reaches the resource).
C1_NoGetForCachedFile ==
    /\ [][\A k \in Keys : gets'[k] # gets[k] => k \notin DOMAIN fs]_vars
    /\ [](\A k \in Keys : saved[k] <= 1 /\ (k \in DOMAIN fs <=> saved[k] = 1))

\* C1 witness: a second run over a directory page that lists speaker "a"
\* twice has gone through get_speaker_pages with one request for the page,
\* one for the directory page.
C1_Witness ==
    /\ runs = 2
    /\ mode = "years"
    /\ pc = "summary"
    /\ yi = 1
    /\ fs[DirPath(2023)] = <<LineA, LineStaff, LineA>>
    /\ gets[DirPath(2023)] = 1
    /\ gets[PagePath(2023, "a")] = 1

\* C2: the resolver returns the pronoun classifier's male/female answer
\* without consulting the name classifier, and otherwise the normalized
\* answer of the name classifier for the name's first name.
C2_ShortCircuit ==
    Returned("get_speaker_gender") =>
        LET he == HasHe(args.bio)
            she == HasShe(args.bio)
            raw == detector[IF HasSpace(args.name) THEN parser[args.name] ELSE args.name]
            norm == CASE raw = <<"mostly_", "male">> -> Male
                      [] raw = <<"mostly_", "female">> -> Female
                      [] raw = Andy -> Unknown
                      [] OTHER -> raw
        IN  /\ (he /\ ~she) => (ret.value = Male /\ calls = {})
            /\ (she /\ ~he) => (ret.value = Female /\ calls = {})
            /\ (he <=> she) => ret.value = norm

\* C2 witness: a biography containing "she" and a name the estimator
\* resolves to male have given female.
C2_Witness ==
    /\ Returned("get_speaker_gender")
    /\ args.bio = <<"s", "h", "e">>
    /\ args.name = <<"sam">>
    /\ detector[<<"sam">>] = Male
    /\ ret.value = Female

\* C3: male exactly when he/him is present as a word and she/her is not,
\* female exactly when she/her is present and he/him is not, none otherwise.
C3_PronounClassifier ==
    Returned("guess_gender_from_bio") =>
        LET he == HasHe(args.bio)
            she == HasShe(args.bio)
        IN  /\ ret.value = Male <=> (he /\ ~she)
            /\ ret.value = Female <=> (she /\ ~he)
            /\ ret.value = NoneVal <=> (he <=> she)

\* C3 witness: "she HE_" holds "she" as a word and "he" only inside the
\* word "he_": female.
C3_Witness ==
    /\ Returned("guess_gender_from_bio")
    /\ args.bio = <<"s", "h", "e", " ", "H", "E", "_">>
    /\ ret.value = Female

\* C4 as stated: the label get_speaker_gender returns is always one of
\* male, female, unknown, whatever the classifier's raw label.
C4_LabelInThreeValues ==
    Returned("get_speaker_gender") => ret.value \in {Male, Female, Unknown}

\* C5 as stated: the classifier is never invoked with the empty string.
C5_NeverQueriedWithEmpty == EmptyStr \notin calls

\* C6: once get_counts has returned, its counts sum to the number of speaker
\* lines of the year's directory page (duplicates included, the staff entry
\* excluded), which is get_speaker_pages' total; every printed summary line
\* carries that number.
C6_CountsSumToTotal ==
    mode = "years" =>
        /\ pc = "summary" =>
              /\ SumDict(counts) = NumSpeakers(Year)
              /\ total = NumSpeakers(Year)
        /\ \A i \in DOMAIN out : out[i].total = NumSpeakers(out[i].year)

\* C6 witness: a page listing "a" twice around the staff entry: total 2.
C6_Witness ==
    /\ mode = "years"
    /\ pc = "summary"
    /\ fs[DirPath(Year)] = <<LineA, LineStaff, LineA>>
    /\ total = 2
    /\ SumDict(counts) = 2

\* C7: get_ratio is female / (male + female); counts that agree on male and
\* female have the same ratio whatever else they hold; {male:1, female:1,
\* unknown:2} gives one half.
C7_RatioExcludesUnknown ==
    Returned("get_ratio") =>
        LET c == args.counts
            m == DictGet(c, Male, 0)
            f == DictGet(c, Female, 0)
        IN  /\ ret.value[2] # 0
            /\ ret.value[1] * (m + f) = f * ret.value[2]
            /\ \A c2 \in CountDicts :
                   (DictGet(c2, Male, 0) = m /\ DictGet(c2, Female, 0) = f) =>
                       /\ get_ratio(c2).status = "returned"
                       /\ RatEq(get_ratio(c2).value, ret.value)
            /\ (m = 1 /\ f = 1 /\ DictGet(c, Unknown, 0) = 2) =>
                   (RatEq(ret.value, <<1, 2>>) /\ ~RatEq(ret.value, <<1, 4>>))

\* C7 witness: get_ratio has returned for {male:1, female:1, unknown:2}.
C7_Witness ==
    /\ Returned("get_ratio")
    /\ DOMAIN args.counts = {Male, Female, Unknown}
    /\ args.counts[Male] = 1
    /\ args.counts[Female] = 1
    /\ args.counts[Unknown] = 2
    /\ RatEq(ret.value, <<1, 2>>)

\* C8 as stated: the report of --tracks Y is computed from year Y's pages.
C8_TracksOfArgYear ==
    ( /\ mode = "tracks"
      /\ pc = "exited"
      /\ err = "none"
      /\ DirPath(argYear) \in DOMAIN fs
      /\ AllPagesCached(argYear) ) => counts = track_counts(argYear)

\* C9: a retrieval that raises ends the run at once, leaves every file as it
\* was and the resource's file absent, after a single request; a run that
\* finds a file absent requests it.
C9_FailedFetchLeavesNoFile ==
    /\ [][(err' = "ConnectionError" /\ pc # "exited") =>
              /\ pc' = "exited"
              /\ fs' = fs
              /\ saved' = saved
              /\ failedKey' \notin DOMAIN fs'
              /\ gets' = [gets EXCEPT ![failedKey'] = @ + 1]]_vars
    /\ []((pc = "exited" /\ err = "ConnectionError") => failedKey \notin DOMAIN fs)
    /\ [][(pc = "process_year" /\ DirPath(Year) \notin DOMAIN fs) =>
              pc' \in {"get_dir", "exited"}]_vars
    /\ [][(pc \in {"get_dir", "get_page"} /\ pc' # "exited") =>
              \E k \in Keys : k \notin DOMAIN fs /\ gets'[k] = gets[k] + 1]_vars

\* C9 witness: the request for speaker "b"'s page has raised in a second run
\* with the directory page and "a"'s page cached: "b"'s file is absent.
C9_Witness ==
    /\ pc = "exited"
    /\ err = "ConnectionError"
    /\ runs = 2
    /\ failedKey = PagePath(2023, "b")
    /\ gets[failedKey] = 2
    /\ PagePath(2023, "a") \in DOMAIN fs
    /\ failedKey \notin DOMAIN fs

\* C10: with male + female = 0 get_ratio raises ZeroDivisionError:
\* process_year ends the run without printing the year's line and without
\* moving to the next year; in track mode a track with male + female = 0
\* ends the run with no line printed.
C10_ZeroDivision ==
    /\ [][(pc = "summary" /\ MalePlusFemale(counts) = 0) =>
              /\ pc' = "exited"
              /\ err' \in {"ZeroDivisionError", "killed"}
              /\ out' = out
              /\ yi' = yi]_vars
    /\ []((pc = "exited" /\ err = "ZeroDivisionError" /\ mode = "years") =>
              /\ MalePlusFemale(counts) = 0
              /\ Len(out) = yi - 1
              /\ \A i \in DOMAIN out : out[i].year # Year)
    /\ []((pc = "exited" /\ mode = "tracks" /\ err \in {"none", "ZeroDivisionError"}) =>
              IF \E t \in DOMAIN counts : MalePlusFemale(counts[t]) = 0
              THEN err = "ZeroDivisionError" /\ out = <<>>
              ELSE err = "none" /\ Len(out) = Cardinality(DOMAIN counts))

\* C10 witness: the first year has only an unknown speaker; the run ended
\* with ZeroDivisionError and nothing printed.
C10_Witness ==
    /\ pc = "exited"
    /\ mode = "years"
    /\ err = "ZeroDivisionError"
    /\ yi = 1
    /\ DOMAIN counts = {Unknown}
    /\ out = <<>>

====
